---- MODULE Spec2Model ----
(***************************************************************************)
(* Surveillance agent: the orchestration pipeline of                       *)
(* src/agents/langgraph_agent.py (SurveillanceAgent, FastMCPClient) and    *)
(* the tool facade of src/__init__.py (Neo4jMCPServer), the graph query    *)
(* tools of src/servers/gms_neo4j_mcp_server.py and the REST tools of      *)
(* src/servers/gms_rest_api_mcp_server.py.                                 *)
(*                                                                         *)
(* Text is modelled at the level the code inspects it: a query is the      *)
(* sequence of its whitespace-separated words (written with single         *)
(* spaces), a model response is the sequence of its lines, a line is the   *)
(* sequence of its characters.  A Python dict is a function from its keys. *)
(* The pipeline state is the single mutable record that process_query      *)
(* builds and every stage mutates and returns.                             *)
(***************************************************************************)
EXTENDS Integers, Sequences, FiniteSets, TLC

VARIABLES
    run,            \* number of process_query calls made on the agent
    phase,          \* "idle" | "running" | "returned"
    query_arg,      \* the query text passed to process_query
    state,          \* the SurveillanceState record of the current run
    pc,             \* position of every graph node in the current superstep
    executed,       \* how often each node was started in the current run
    session,        \* FastMCPClient.session of neo4j_client and api_client
    sent,           \* tool calls each client has sent in the current run
    received,       \* what call_tool returned for them, in the same order
    alerts_data,    \* local of _fetch_neo4j_data between its two calls
    llm_calls,      \* llm.ainvoke calls of the current run
    result,         \* what process_query returned
    seen,           \* what _analyze_data read from the state
    done_at_start,  \* nodes that had completed when a node started
    ticks           \* steps taken by the current run

pipeVars == <<run, phase, query_arg, state, pc, executed, session, sent, received,
              alerts_data, llm_calls, result, seen, done_at_start, ticks>>

VARIABLES
    client_call     \* the last FastMCPClient.call_tool made on its own, and its outcome

clientVars == <<client_call>>

VARIABLES
    calls_made,     \* number of Neo4jMCPServer.call_tool requests served
    request,        \* the last request of the facade
    served          \* what the facade did with it

facadeVars == <<calls_made, request, served>>

VARIABLES
    gms_call        \* the last tool of gms_neo4j_mcp_server called: store, arguments, outcome

gmsVars == <<gms_call>>

VARIABLES
    api_session,    \* ApiService.session of gms_rest_api_mcp_server
    rest_call,      \* the last tool of gms_rest_api_mcp_server answered, and its outcome
    created,        \* number of aiohttp.ClientSession objects ApiService has constructed
    in_flight,      \* tool calls that wait for the upstream response, with their session
    rest_up         \* the REST server is between its startup and its shutdown

VARIABLES
    insights_call   \* a model response handed to the filter of _generate_insights, and its result

insightVars == <<insights_call>>

restVars == <<api_session, rest_call, created, in_flight, rest_up>>

vars == <<pipeVars, clientVars, facadeVars, gmsVars, restVars, insightVars>>

-----------------------------------------------------------------------------
(* Bounds of the model *)

MaxQueryLen == 2
MaxRuns == 2
MaxCalls == 2

-----------------------------------------------------------------------------
(* Query text *)

Vocab == {"spoofing", "alerts", "trader", "Bill", "Lyons"}

ScenarioQueries ==
    { <<"Show", "me", "all", "spoofing", "alerts", "from", "last", "week">>,
      <<"Get", "all", "alerts", "with", "workflow", "for", "Bill", "Lyons">>,
      <<"Show", "me", "recent", "spoofing", "alerts">>,
      <<"What", "are", "the", "latest", "surveillance", "concerns?">>,
      <<"Any", "spoofing", "today?">>,
      <<"wash", "trading">>,
      <<"spoofing", "and", "wash", "trading">>,
      <<"wash", "trading", "alerts">>,
      <<"alerts", "for", "traders">>,
      <<"Trader", "Smith">> }

BoundedSeq(S, n) == UNION {[1..k -> S] : k \in 0..n}

Queries == ScenarioQueries \cup BoundedSeq(Vocab, MaxQueryLen)

\* str.lower() of one word
LowerWord(w) ==
    CASE w = "Show" -> "show"
      [] w = "Get" -> "get"
      [] w = "Bill" -> "bill"
      [] w = "Lyons" -> "lyons"
      [] w = "What" -> "what"
      [] w = "Any" -> "any"
      [] w = "Trader" -> "trader"
      [] w = "Smith" -> "smith"
      [] OTHER -> w

\* str.lower() of a text
lower(text) == [i \in 1..Len(text) |-> LowerWord(text[i])]

\* <<needle, word>>: needle is a proper prefix of word
ProperPrefixes == {<<"trader", "traders">>}

StartsWith(word, needle) == word = needle \/ <<needle, word>> \in ProperPrefixes

\* no word of the vocabulary has a needle as a proper suffix or infix
EndsWith(word, needle) == word = needle

\* `needle in word` for a needle without a space
WordHas(word, needle) == StartsWith(word, needle) \/ EndsWith(word, needle)

\* Python's `phrase in text` for a phrase of one or two words
PhraseIn(phrase, text) ==
    IF Len(phrase) = 1
    THEN \E i \in 1..Len(text) : WordHas(text[i], phrase[1])
    ELSE \E i \in 1..(Len(text) - 1) :
            EndsWith(text[i], phrase[1]) /\ StartsWith(text[i + 1], phrase[2])

BillLyons == <<"bill", "lyons">>

Min(S) == CHOOSE x \in S : \A y \in S : x <= y

extract_trader_name(query) ==
    IF PhraseIn(BillLyons, lower(query))
    THEN "Bill Lyons"
    ELSE IF PhraseIn(<<"trader">>, query)
         THEN LET hits == {i \in 1..Len(query) :
                              LowerWord(query[i]) = "trader" /\ i + 1 <= Len(query)}
              IN  IF hits # {} THEN query[Min(hits) + 1] ELSE ""
         ELSE ""

-----------------------------------------------------------------------------
(* Dicts *)

EmptyDict == [k \in {} |-> ""]

DictSet(d, key, value) ==
    [k \in (DOMAIN d) \cup {key} |-> IF k = key THEN value ELSE d[k]]

-----------------------------------------------------------------------------
(* FastMCPClient: the HTTP side of a tool call *)

Clients == {"neo4j_client", "api_client"}

None == "None"

ToolCall(tool_name, kwargs) == [name |-> tool_name, arguments |-> kwargs]

\* the first element of the server's result list for a call: opaque here,
\* identified by the request it answers
ToolPayload(call) == [payload_of |-> call.name, request |-> call.arguments]

OutcomeKinds ==
    {"ok", "no_result", "empty_result", "result_object", "tools", "not_json",
     "http_404", "http_500", "refused"}

\* the tool names a server answers tools/list with
ServerTools == <<"get_real_time_alerts", "get_trader_profile">>

\* what session.post(...) and response.json() hand to call_tool
HttpExchange(kind, call) ==
    LET resp(st, js, rk, r) ==
            [raises |-> FALSE, exc |-> None, status |-> st, json_ok |-> js,
             result_kind |-> rk, result |-> r]
    IN  CASE kind = "ok" -> resp(200, TRUE, "list", <<ToolPayload(call)>>)
          [] kind = "no_result" -> resp(200, TRUE, "absent", None)
          [] kind = "empty_result" -> resp(200, TRUE, "list", <<>>)
          [] kind = "result_object" -> resp(200, TRUE, "object", ToolPayload(call))
          [] kind = "tools" -> resp(200, TRUE, "object", [tools |-> ServerTools])
          [] kind = "not_json" -> resp(200, FALSE, "absent", None)
          [] kind = "http_404" -> resp(404, TRUE, "absent", None)
          [] kind = "http_500" -> resp(500, TRUE, "absent", None)
          [] kind = "refused" ->
                [raises |-> TRUE, exc |-> "Cannot connect to host", status |-> 0,
                 json_ok |-> FALSE, result_kind |-> "absent", result |-> None]

StatusText(status) ==
    CASE status = 404 -> "404" [] status = 500 -> "500" [] OTHER -> "other"

Returned(v) == [raised |-> FALSE, value |-> v, exc |-> None]

Raised(e) == [raised |-> TRUE, value |-> None, exc |-> e]

\* call_tool's try block without the status test: every response is decoded
call_tool_try_any_status(sess, x) ==
    IF sess = None
    THEN Raised("'NoneType' object has no attribute 'post'")
    ELSE IF sess = "closed"
    THEN Raised("Session is closed")
    ELSE IF x.raises
    THEN Raised(x.exc)
    ELSE IF ~x.json_ok
    THEN Raised("Attempt to decode JSON with unexpected mimetype")
    ELSE IF x.result_kind = "absent"
            \/ (x.result_kind = "list" /\ x.result = <<>>)
            \/ (x.result_kind = "object" /\ x.result = EmptyDict)
    THEN Returned(EmptyDict)
    ELSE IF x.result_kind = "list"
    THEN Returned(Head(x.result))
    ELSE Raised("0")

\* the body of call_tool's try block
call_tool_try(sess, x) ==
    IF sess = None
    THEN Raised("'NoneType' object has no attribute 'post'")
    ELSE IF sess = "closed"
    THEN Raised("Session is closed")
    ELSE IF x.raises
    THEN Raised(x.exc)
    ELSE IF x.status = 200
    THEN IF ~x.json_ok
         THEN Raised("Attempt to decode JSON with unexpected mimetype")
         ELSE IF x.result_kind = "absent"
                 \/ (x.result_kind = "list" /\ x.result = <<>>)
                 \/ (x.result_kind = "object" /\ x.result = EmptyDict)
         THEN Returned(EmptyDict)
         ELSE IF x.result_kind = "list"
         THEN Returned(Head(x.result))
         ELSE Raised("0")
    ELSE Returned([error |-> <<"HTTP error: ", StatusText(x.status)>>])

\* call_tool without its except clause
call_tool_unhandled(sess, x) == call_tool_try(sess, x)

\* call_tool: every Exception of the try block becomes an error dict
call_tool(sess, x) ==
    LET r == call_tool_try(sess, x)
    IN  IF r.raised
        THEN Returned([error |-> <<"Connection error: ", r.exc>>])
        ELSE r

\* the body of list_tools' try block
list_tools_try(sess, x) ==
    IF sess = None
    THEN Raised("'NoneType' object has no attribute 'post'")
    ELSE IF sess = "closed"
    THEN Raised("Session is closed")
    ELSE IF x.raises
    THEN Raised(x.exc)
    ELSE IF x.status = 200
    THEN IF ~x.json_ok
         THEN Raised("Attempt to decode JSON with unexpected mimetype")
         ELSE IF x.result_kind = "absent"
         THEN Returned(<<>>)
         ELSE IF x.result_kind = "list"
         THEN Raised("'list' object has no attribute 'get'")
         ELSE IF "tools" \in DOMAIN x.result
         THEN Returned(x.result.tools)
         ELSE Returned(<<>>)
    ELSE Returned(<<>>)

\* list_tools: every Exception of the try block becomes the empty list
list_tools(sess, x) ==
    LET r == list_tools_try(sess, x)
    IN  IF r.raised THEN Returned(<<>>) ELSE r

-----------------------------------------------------------------------------
(* The language model *)

LLMFailure == [raises |-> TRUE, exc |-> "llm request failed", content |-> None]

LLMContent(c) == [raises |-> FALSE, exc |-> None, content |-> c]

\* a response of the insights prompt: its lines, each a sequence of characters
InsightResponses ==
    { << <<"1", ".", " ", "a">>, <<"n", "o", "t", "e">>, <<" ", "2", ")", "b">> >>,
      << <<>> >> }

Whitespace == {" ", "\t"}

Digits == {"0", "1", "2", "3", "4", "5", "6", "7", "8", "9"}

RECURSIVE lstrip(_)
lstrip(line) ==
    IF line # <<>> /\ Head(line) \in Whitespace THEN lstrip(Tail(line)) ELSE line

RECURSIVE rstrip(_)
rstrip(line) ==
    IF line # <<>> /\ line[Len(line)] \in Whitespace
    THEN rstrip(SubSeq(line, 1, Len(line) - 1))
    ELSE line

\* str.strip()
strip(line) == rstrip(lstrip(line))

\* the condition made on the line without the whitespace around it
keeps_line_stripped(line) ==
    /\ strip(line) # <<>>
    /\ \E i \in 1..Len(strip(line)) : i <= 3 /\ strip(line)[i] \in Digits

\* the condition of the list comprehension of _generate_insights
keeps_line(line) ==
    /\ strip(line) # <<>>
    /\ \E i \in 1..Len(line) : i <= 3 /\ line[i] \in Digits

RECURSIVE parse_insights(_)
parse_insights(lines) ==
    IF lines = <<>>
    THEN <<>>
    ELSE (IF keeps_line(Head(lines)) THEN <<strip(Head(lines))>> ELSE <<>>)
            \o parse_insights(Tail(lines))

-----------------------------------------------------------------------------
(* SurveillanceAgent: the graph and its state *)

Stages ==
    {"parse_query", "fetch_neo4j_data", "fetch_api_data", "analyze_data",
     "generate_insights"}

END == "__end__"

entry_point == "parse_query"

\* Edges with an edge back from the last node to the entry point
Edges_with_loop ==
    { <<"parse_query", "fetch_neo4j_data">>,
      <<"parse_query", "fetch_api_data">>,
      <<"fetch_neo4j_data", "analyze_data">>,
      <<"fetch_api_data", "analyze_data">>,
      <<"analyze_data", "generate_insights">>,
      <<"generate_insights", "parse_query">> }

\* Edges with analyze_data also fed by parse_query, beside the fetch nodes
Edges_early_analyze ==
    { <<"parse_query", "fetch_neo4j_data">>,
      <<"parse_query", "fetch_api_data">>,
      <<"parse_query", "analyze_data">>,
      <<"fetch_neo4j_data", "analyze_data">>,
      <<"fetch_api_data", "analyze_data">>,
      <<"analyze_data", "generate_insights">>,
      <<"generate_insights", END>> }

Edges ==
    { <<"parse_query", "fetch_neo4j_data">>,
      <<"parse_query", "fetch_api_data">>,
      <<"fetch_neo4j_data", "analyze_data">>,
      <<"fetch_api_data", "analyze_data">>,
      <<"analyze_data", "generate_insights">>,
      <<"generate_insights", END>> }

NoState == [none |-> TRUE]

NoResult == [pending |-> TRUE]

NotSeen == [unread |-> TRUE]

\* an initial state whose message log already has an entry
initial_state_with_greeting(q) ==
    [messages |-> << [role |-> "user", content |-> q] >>, query |-> q,
     neo4j_data |-> EmptyDict, api_data |-> EmptyDict, analysis |-> "", insights |-> <<>>]

initial_state(q) ==
    [messages |-> <<>>, query |-> q, neo4j_data |-> EmptyDict,
     api_data |-> EmptyDict, analysis |-> "", insights |-> <<>>]

\* nodes of the current run that have returned
Completed == {s \in Stages : executed[s] > 0 /\ pc[s] \in {"done", "off"}}

\* the tool calls _fetch_neo4j_data makes for a trader name
alerts_call(trader_name) ==
    ToolCall("get_alerts_for_trader", [trader_name |-> trader_name, limit |-> 20])

network_call(trader_name) ==
    ToolCall("get_trader_network", [trader_name |-> trader_name, depth |-> 2])

type_call(misconduct_type) ==
    ToolCall("get_alerts_by_type", [misconduct_type |-> misconduct_type, limit |-> 15])

\* the real-time call with the defaults of the tool
real_time_call_with_defaults == ToolCall("get_real_time_alerts", [limit |-> 20])

real_time_call == ToolCall("get_real_time_alerts", [status |-> "active", limit |-> 10])

profile_call == ToolCall("get_trader_profile", [trader_id |-> "Bill Lyons"])

\* the first branch taken for a trader only, not for a query about alerts
trader_branch_without_alerts(q) == PhraseIn(BillLyons, q) \/ PhraseIn(<<"trader">>, q)

\* the condition of the first branch of _fetch_neo4j_data
trader_branch(q) ==
    PhraseIn(BillLyons, q) \/ PhraseIn(<<"trader">>, q) \/ PhraseIn(<<"alerts">>, q)

\* neo4j_first that sends its first call a second time
neo4j_first_resend(q) ==
    IF trader_branch(q)
    THEN LET trader_name == extract_trader_name(q)
         IN  IF trader_name # ""
             THEN [at |-> "await_alerts",
                   calls |-> <<alerts_call(trader_name), alerts_call(trader_name)>>]
             ELSE [at |-> "closing", calls |-> <<>>]
    ELSE IF PhraseIn(<<"spoofing">>, q)
    THEN [at |-> "await_spoofing", calls |-> <<type_call("spoofing"), type_call("spoofing")>>]
    ELSE IF PhraseIn(<<"wash", "trading">>, q)
    THEN [at |-> "await_wash",
          calls |-> <<type_call("wash_trading"), type_call("wash_trading")>>]
    ELSE [at |-> "closing", calls |-> <<>>]

\* where _fetch_neo4j_data first suspends, and the call it has sent by then
neo4j_first(q) ==
    IF trader_branch(q)
    THEN LET trader_name == extract_trader_name(q)
         IN  IF trader_name # ""
             THEN [at |-> "await_alerts", calls |-> <<alerts_call(trader_name)>>]
             ELSE [at |-> "closing", calls |-> <<>>]
    ELSE IF PhraseIn(<<"spoofing">>, q)
    THEN [at |-> "await_spoofing", calls |-> <<type_call("spoofing")>>]
    ELSE IF PhraseIn(<<"wash", "trading">>, q)
    THEN [at |-> "await_wash", calls |-> <<type_call("wash_trading")>>]
    ELSE [at |-> "closing", calls |-> <<>>]

\* trader_data that keeps a result only when it is no error payload
trader_data_without_errors(alerts, network) ==
    IF "error" \in DOMAIN alerts \/ "error" \in DOMAIN network
    THEN EmptyDict
    ELSE [alerts |-> alerts, network |-> network]

\* the value _fetch_neo4j_data assigns in its trader branch
trader_data(alerts, network) == [alerts |-> alerts, network |-> network]

\* state["neo4j_data"] = data
neo4j_update(st, data) == [st EXCEPT !.neo4j_data = data]

\* api_update on a fresh state record instead of the shared one
api_update_fresh(st, real_time_data) ==
    [initial_state(st.query) EXCEPT !.api_data = [real_time_alerts |-> real_time_data]]

\* state["api_data"] = {"real_time_alerts": real_time_data}
api_update(st, real_time_data) ==
    [st EXCEPT !.api_data = [real_time_alerts |-> real_time_data]]

\* `return state` of a stage: the update it hands to the graph is the state
\* record itself, all its fields
node_update(s) == state

\* the outcomes of a tool call that the pipeline is run against
StageOutcomeKinds == {"ok", "http_500", "refused"}

-----------------------------------------------------------------------------
(* SurveillanceAgent: process_query and the stages *)

notPipeVars == <<clientVars, facadeVars, gmsVars, restVars, insightVars>>

\* error_record that hands back the state of the failed run with the error
error_record_partial(e) ==
    [error |-> <<"Error processing query: ", e>>,
     query |-> query_arg,
     neo4j_data |-> state.neo4j_data,
     api_data |-> state.api_data,
     insights |-> << <<"Failed to process query: ", e>> >>]

error_record(e) ==
    [error |-> <<"Error processing query: ", e>>,
     query |-> query_arg,
     insights |-> << <<"Failed to process query: ", e>> >>]

\* a node starts
begin(s) ==
    /\ executed' = [executed EXCEPT ![s] = @ + 1]
    /\ done_at_start' = [done_at_start EXCEPT ![s] = Completed]

\* node s raises e: the other nodes of the step are cancelled, every
\* `async with` block that is left closes its session, graph.ainvoke raises
\* and the except branch of process_query returns
raise(s, e) ==
    /\ phase' = "returned"
    /\ result' = error_record(e)
    /\ pc' = [t \in Stages |->
                IF t = s THEN "raised"
                ELSE IF pc[t] \in {"off", "done"} THEN pc[t] ELSE "cancelled"]
    /\ session' = [c \in Clients |-> IF session[c] = "open" THEN "closed" ELSE session[c]]

\* call_tool's result for the call the client sent last
reply(client, kind) ==
    call_tool(session[client], HttpExchange(kind, sent[client][Len(sent[client])]))

process_query(q) ==
    /\ phase = "idle"
    /\ run < MaxRuns
    /\ run' = run + 1
    /\ phase' = "running"
    /\ query_arg' = q
    /\ state' = initial_state(q)
    /\ pc' = [s \in Stages |-> IF s = entry_point THEN "ready" ELSE "off"]
    /\ executed' = [s \in Stages |-> 0]
    /\ sent' = [c \in Clients |-> <<>>]
    /\ received' = [c \in Clients |-> <<>>]
    /\ alerts_data' = None
    /\ llm_calls' = 0
    /\ result' = NoResult
    /\ seen' = NotSeen
    /\ done_at_start' = [s \in Stages |-> {}]
    /\ ticks' = 0
    /\ UNCHANGED <<session, notPipeVars>>

parse_query ==
    /\ phase = "running"
    /\ pc["parse_query"] = "ready"
    /\ begin("parse_query")
    /\ llm_calls' = llm_calls + 1
    /\ \E r \in {LLMFailure, LLMContent("entities")} :
          IF r.raises
          THEN raise("parse_query", r.exc) /\ UNCHANGED state
          ELSE /\ state' = [state EXCEPT !.messages =
                               Append(@, [role |-> "system",
                                          content |-> <<"Parsed query: ", r.content>>])]
               /\ pc' = [pc EXCEPT !["parse_query"] = "done"]
               /\ UNCHANGED <<phase, result, session>>
    /\ ticks' = ticks + 1
    /\ UNCHANGED <<run, query_arg, sent, alerts_data, seen, received, notPipeVars>>

fetch_neo4j_enter ==
    /\ phase = "running"
    /\ pc["fetch_neo4j_data"] = "ready"
    /\ begin("fetch_neo4j_data")
    /\ LET first == neo4j_first(lower(state.query))
       IN  /\ session' = [session EXCEPT !["neo4j_client"] = "open"]
           /\ sent' = [sent EXCEPT !["neo4j_client"] = @ \o first.calls]
           /\ pc' = [pc EXCEPT !["fetch_neo4j_data"] = first.at]
    /\ ticks' = ticks + 1
    /\ UNCHANGED <<run, phase, query_arg, state, alerts_data, llm_calls, result,
                   seen, received, notPipeVars>>

fetch_neo4j_alerts_return ==
    /\ phase = "running"
    /\ pc["fetch_neo4j_data"] = "await_alerts"
    /\ \E kind \in StageOutcomeKinds :
          LET r == reply("neo4j_client", kind)
              trader_name == extract_trader_name(lower(state.query))
          IN  IF r.raised
              THEN raise("fetch_neo4j_data", r.exc) /\ UNCHANGED <<alerts_data, sent, received>>
              ELSE /\ alerts_data' = r.value
                   /\ sent' = [sent EXCEPT !["neo4j_client"] =
                                  Append(@, network_call(trader_name))]
                   /\ pc' = [pc EXCEPT !["fetch_neo4j_data"] = "await_network"]
                   /\ received' = [received EXCEPT !["neo4j_client"] = Append(@, r.value)]
                   /\ UNCHANGED <<phase, result, session>>
    /\ ticks' = ticks + 1
    /\ UNCHANGED <<run, query_arg, state, executed, llm_calls, seen, done_at_start,
                   notPipeVars>>

fetch_neo4j_network_return ==
    /\ phase = "running"
    /\ pc["fetch_neo4j_data"] = "await_network"
    /\ \E kind \in StageOutcomeKinds :
          LET r == reply("neo4j_client", kind)
          IN  IF r.raised
              THEN raise("fetch_neo4j_data", r.exc) /\ UNCHANGED <<alerts_data, state, received>>
              ELSE /\ state' = neo4j_update(state, trader_data(alerts_data, r.value))
                   /\ alerts_data' = None
                   /\ pc' = [pc EXCEPT !["fetch_neo4j_data"] = "closing"]
                   /\ received' = [received EXCEPT !["neo4j_client"] = Append(@, r.value)]
                   /\ UNCHANGED <<phase, result, session>>
    /\ ticks' = ticks + 1
    /\ UNCHANGED <<run, query_arg, executed, sent, llm_calls, seen, done_at_start,
                   notPipeVars>>

fetch_neo4j_spoofing_return ==
    /\ phase = "running"
    /\ pc["fetch_neo4j_data"] = "await_spoofing"
    /\ \E kind \in StageOutcomeKinds :
          LET r == reply("neo4j_client", kind)
          IN  IF r.raised
              THEN raise("fetch_neo4j_data", r.exc) /\ UNCHANGED <<state, received>>
              ELSE /\ state' = neo4j_update(state, [spoofing_alerts |-> r.value])
                   /\ pc' = [pc EXCEPT !["fetch_neo4j_data"] = "closing"]
                   /\ received' = [received EXCEPT !["neo4j_client"] = Append(@, r.value)]
                   /\ UNCHANGED <<phase, result, session>>
    /\ ticks' = ticks + 1
    /\ UNCHANGED <<run, query_arg, executed, sent, alerts_data, llm_calls, seen,
                   done_at_start, notPipeVars>>

fetch_neo4j_wash_return ==
    /\ phase = "running"
    /\ pc["fetch_neo4j_data"] = "await_wash"
    /\ \E kind \in StageOutcomeKinds :
          LET r == reply("neo4j_client", kind)
          IN  IF r.raised
              THEN raise("fetch_neo4j_data", r.exc) /\ UNCHANGED <<state, received>>
              ELSE /\ state' = neo4j_update(state, [wash_trading_alerts |-> r.value])
                   /\ pc' = [pc EXCEPT !["fetch_neo4j_data"] = "closing"]
                   /\ received' = [received EXCEPT !["neo4j_client"] = Append(@, r.value)]
                   /\ UNCHANGED <<phase, result, session>>
    /\ ticks' = ticks + 1
    /\ UNCHANGED <<run, query_arg, executed, sent, alerts_data, llm_calls, seen,
                   done_at_start, notPipeVars>>

\* fetch_neo4j_exit that leaves the session of the client open
fetch_neo4j_exit_keeps_session ==
    /\ phase = "running"
    /\ pc["fetch_neo4j_data"] = "closing"
    /\ pc' = [pc EXCEPT !["fetch_neo4j_data"] = "done"]
    /\ ticks' = ticks + 1
    /\ UNCHANGED <<run, phase, query_arg, state, executed, sent, alerts_data, session,
                   llm_calls, result, seen, done_at_start, received, notPipeVars>>

\* leaving `async with self.neo4j_client`, then `return state`
fetch_neo4j_exit ==
    /\ phase = "running"
    /\ pc["fetch_neo4j_data"] = "closing"
    /\ session' = [session EXCEPT !["neo4j_client"] = "closed"]
    /\ pc' = [pc EXCEPT !["fetch_neo4j_data"] = "done"]
    /\ ticks' = ticks + 1
    /\ UNCHANGED <<run, phase, query_arg, state, executed, sent, alerts_data,
                   llm_calls, result, seen, done_at_start, received, notPipeVars>>

fetch_api_enter ==
    /\ phase = "running"
    /\ pc["fetch_api_data"] = "ready"
    /\ begin("fetch_api_data")
    /\ session' = [session EXCEPT !["api_client"] = "open"]
    /\ sent' = [sent EXCEPT !["api_client"] = Append(@, real_time_call)]
    /\ pc' = [pc EXCEPT !["fetch_api_data"] = "await_real_time"]
    /\ ticks' = ticks + 1
    /\ UNCHANGED <<run, phase, query_arg, state, alerts_data, llm_calls, result,
                   seen, received, notPipeVars>>

fetch_api_real_time_return ==
    /\ phase = "running"
    /\ pc["fetch_api_data"] = "await_real_time"
    /\ \E kind \in StageOutcomeKinds :
          LET r == reply("api_client", kind)
          IN  IF r.raised
              THEN raise("fetch_api_data", r.exc) /\ UNCHANGED <<state, sent, received>>
              ELSE /\ state' = api_update(state, r.value)
                   /\ IF PhraseIn(BillLyons, lower(state.query))
                      THEN /\ sent' = [sent EXCEPT !["api_client"] =
                                          Append(@, profile_call)]
                           /\ pc' = [pc EXCEPT !["fetch_api_data"] = "await_profile"]
                      ELSE /\ sent' = sent
                           /\ pc' = [pc EXCEPT !["fetch_api_data"] = "closing"]
                   /\ received' = [received EXCEPT !["api_client"] = Append(@, r.value)]
                   /\ UNCHANGED <<phase, result, session>>
    /\ ticks' = ticks + 1
    /\ UNCHANGED <<run, query_arg, executed, alerts_data, llm_calls, seen,
                   done_at_start, notPipeVars>>

fetch_api_profile_return ==
    /\ phase = "running"
    /\ pc["fetch_api_data"] = "await_profile"
    /\ \E kind \in StageOutcomeKinds :
          LET r == reply("api_client", kind)
          IN  IF r.raised
              THEN raise("fetch_api_data", r.exc) /\ UNCHANGED <<state, received>>
              ELSE /\ state' = [state EXCEPT !.api_data =
                                   DictSet(@, "trader_profile", r.value)]
                   /\ pc' = [pc EXCEPT !["fetch_api_data"] = "closing"]
                   /\ received' = [received EXCEPT !["api_client"] = Append(@, r.value)]
                   /\ UNCHANGED <<phase, result, session>>
    /\ ticks' = ticks + 1
    /\ UNCHANGED <<run, query_arg, executed, sent, alerts_data, llm_calls, seen,
                   done_at_start, notPipeVars>>

fetch_api_exit ==
    /\ phase = "running"
    /\ pc["fetch_api_data"] = "closing"
    /\ session' = [session EXCEPT !["api_client"] = "closed"]
    /\ pc' = [pc EXCEPT !["fetch_api_data"] = "done"]
    /\ ticks' = ticks + 1
    /\ UNCHANGED <<run, phase, query_arg, state, executed, sent, alerts_data,
                   llm_calls, result, seen, done_at_start, received, notPipeVars>>

analyze_data ==
    /\ phase = "running"
    /\ pc["analyze_data"] = "ready"
    /\ begin("analyze_data")
    /\ seen' = [neo4j_data |-> state.neo4j_data, api_data |-> state.api_data]
    /\ llm_calls' = llm_calls + 1
    /\ \E r \in {LLMFailure, LLMContent("analysis text")} :
          IF r.raises
          THEN raise("analyze_data", r.exc) /\ UNCHANGED state
          ELSE /\ state' = [state EXCEPT !.analysis = r.content]
               /\ pc' = [pc EXCEPT !["analyze_data"] = "done"]
               /\ UNCHANGED <<phase, result, session>>
    /\ ticks' = ticks + 1
    /\ UNCHANGED <<run, query_arg, sent, alerts_data, received, notPipeVars>>

generate_insights ==
    /\ phase = "running"
    /\ pc["generate_insights"] = "ready"
    /\ begin("generate_insights")
    /\ llm_calls' = llm_calls + 1
    /\ \E r \in {LLMFailure} \cup {LLMContent(c) : c \in InsightResponses} :
          IF r.raises
          THEN raise("generate_insights", r.exc) /\ UNCHANGED state
          ELSE /\ state' = [state EXCEPT !.insights = parse_insights(r.content)]
               /\ pc' = [pc EXCEPT !["generate_insights"] = "done"]
               /\ UNCHANGED <<phase, result, session>>
    /\ ticks' = ticks + 1
    /\ UNCHANGED <<run, query_arg, sent, alerts_data, seen, received, notPipeVars>>

\* the compiled graph: when every node of the step has returned, the nodes
\* their edges lead to form the next step; after the edge to END, graph.ainvoke
\* returns the state and process_query returns it
superstep ==
    /\ phase = "running"
    /\ \A s \in Stages : pc[s] \in {"off", "done"}
    /\ \E s \in Stages : pc[s] = "done"
    /\ LET next == {n \in Stages : \E s \in Stages : pc[s] = "done" /\ <<s, n>> \in Edges}
       IN  IF next = {}
           THEN /\ phase' = "returned"
                /\ result' = state
                /\ pc' = [s \in Stages |-> "off"]
           ELSE /\ pc' = [s \in Stages |-> IF s \in next THEN "ready" ELSE "off"]
                /\ UNCHANGED <<phase, result>>
    /\ ticks' = ticks + 1
    /\ UNCHANGED <<run, query_arg, state, executed, session, sent, alerts_data,
                   llm_calls, seen, done_at_start, received, notPipeVars>>

\* the caller has taken the returned record and may pass the next query
next_query ==
    /\ phase = "returned"
    /\ phase' = "idle"
    /\ query_arg' = <<>>
    /\ state' = NoState
    /\ pc' = [s \in Stages |-> "off"]
    /\ executed' = [s \in Stages |-> 0]
    /\ sent' = [c \in Clients |-> <<>>]
    /\ received' = [c \in Clients |-> <<>>]
    /\ alerts_data' = None
    /\ llm_calls' = 0
    /\ result' = NoResult
    /\ seen' = NotSeen
    /\ done_at_start' = [s \in Stages |-> {}]
    /\ ticks' = 0
    /\ UNCHANGED <<run, session, notPipeVars>>

PipeInit ==
    /\ run = 0
    /\ phase = "idle"
    /\ query_arg = <<>>
    /\ state = NoState
    /\ pc = [s \in Stages |-> "off"]
    /\ executed = [s \in Stages |-> 0]
    /\ session = [c \in Clients |-> None]
    /\ sent = [c \in Clients |-> <<>>]
    /\ received = [c \in Clients |-> <<>>]
    /\ alerts_data = None
    /\ llm_calls = 0
    /\ result = NoResult
    /\ seen = NotSeen
    /\ done_at_start = [s \in Stages |-> {}]
    /\ ticks = 0

ClientIdle == client_call = [made |-> FALSE]

FacadeIdle ==
    /\ calls_made = 0
    /\ request = [none |-> TRUE]
    /\ served = [none |-> TRUE]

GmsIdle == gms_call = [made |-> FALSE]

RestIdle ==
    /\ api_session = None
    /\ rest_call = [made |-> FALSE]
    /\ created = 0
    /\ in_flight = <<>>
    /\ rest_up = TRUE

InsightsIdle == insights_call = [made |-> FALSE]

Init == PipeInit /\ ClientIdle /\ FacadeIdle /\ GmsIdle /\ RestIdle /\ InsightsIdle

Next ==
    \/ \E q \in Queries : process_query(q)
    \/ parse_query
    \/ fetch_neo4j_enter
    \/ fetch_neo4j_alerts_return
    \/ fetch_neo4j_network_return
    \/ fetch_neo4j_spoofing_return
    \/ fetch_neo4j_wash_return
    \/ fetch_neo4j_exit
    \/ fetch_api_enter
    \/ fetch_api_real_time_return
    \/ fetch_api_profile_return
    \/ fetch_api_exit
    \/ analyze_data
    \/ generate_insights
    \/ superstep
    \/ next_query

Spec == Init /\ [][Next]_vars

-----------------------------------------------------------------------------
(* FastMCPClient on its own: any call, on any session, against any exchange *)

SessionStates == {None, "open", "closed"}

ClientCalls ==
    {alerts_call("Bill Lyons"), network_call("Bill Lyons"), type_call("spoofing"),
     real_time_call, profile_call}

client_call_tool ==
    /\ \E c \in ClientCalls, sess \in SessionStates, kind \in OutcomeKinds :
          client_call' = [made |-> TRUE, op |-> "call_tool", call |-> c,
                          session |-> sess, kind |-> kind,
                          outcome |-> call_tool(sess, HttpExchange(kind, c))]
    /\ UNCHANGED <<pipeVars, insightVars, facadeVars, gmsVars, restVars>>

client_list_tools ==
    /\ \E sess \in SessionStates, kind \in OutcomeKinds :
          LET c == [name |-> "tools/list", arguments |-> EmptyDict]
          IN  client_call' = [made |-> TRUE, op |-> "list_tools", call |-> c,
                              session |-> sess, kind |-> kind,
                              outcome |-> list_tools(sess, HttpExchange(kind, c))]
    /\ UNCHANGED <<pipeVars, insightVars, facadeVars, gmsVars, restVars>>

ClientNext == client_call_tool \/ client_list_tools

ClientSpec == Init /\ [][ClientNext]_vars

-----------------------------------------------------------------------------
(* Neo4jMCPServer: list_tools, call_tool and the four query methods *)

\* server_list_tools declaring a fifth tool
server_list_tools_extra ==
    << [name |-> "get_alerts_for_trader", required |-> {"trader_name"},
        defaults |-> [limit |-> 10]],
       [name |-> "get_alert_workflow", required |-> {"alert_id"},
        defaults |-> EmptyDict],
       [name |-> "get_alerts_by_type", required |-> {"misconduct_type"},
        defaults |-> [limit |-> 10]],
       [name |-> "get_trader_network", required |-> {"trader_name"},
        defaults |-> [depth |-> 2]],
       [name |-> "search_alerts_by_criteria", required |-> {},
        defaults |-> [limit |-> 20]] >>

server_list_tools ==
    << [name |-> "get_alerts_for_trader", required |-> {"trader_name"},
        defaults |-> [limit |-> 10]],
       [name |-> "get_alert_workflow", required |-> {"alert_id"},
        defaults |-> EmptyDict],
       [name |-> "get_alerts_by_type", required |-> {"misconduct_type"},
        defaults |-> [limit |-> 10]],
       [name |-> "get_trader_network", required |-> {"trader_name"},
        defaults |-> [depth |-> 2]] >>

\* what session.run(...) can do for a query: return its records, return
\* records that hold a temporal value of the driver, return none, or raise
StoreOutcomes == {"rows", "temporal_rows", "no_rows", "fails"}

TemporalValues == {"neo4j.time.DateTime"}

AlertRecords(outcome) ==
    CASE outcome = "rows" ->
            << [alert_id |-> "A2", created_date |-> "2024-02-01"],
               [alert_id |-> "A1", created_date |-> "2024-01-01"] >>
      [] outcome = "temporal_rows" ->
            << [alert_id |-> "A2", created_date |-> "neo4j.time.DateTime"] >>
      [] OTHER -> <<>>

NetworkRecords(outcome) ==
    IF outcome \in {"rows", "temporal_rows"}
    THEN << [connected_trader |-> "Ann", degrees_of_separation |-> 1] >>
    ELSE <<>>

\* LIMIT $limit
Limit(records, limit) ==
    IF Len(records) <= limit THEN records ELSE SubSeq(records, 1, limit)

\* a result of a query method, with the number of queries it ran
Answer(r, n) == [raised |-> r.raised, value |-> r.value, exc |-> r.exc, queries |-> n]

get_alerts_for_trader(trader_name, limit, outcome) ==
    IF outcome = "fails"
    THEN Answer(Raised("ServiceUnavailable"), 1)
    ELSE LET records == Limit(AlertRecords(outcome), limit)
         IN  Answer(Returned([trader_name |-> trader_name,
                              total_alerts |-> Len(records),
                              alerts |-> records]), 1)

get_alert_workflow(alert_id, outcome) ==
    IF outcome = "fails"
    THEN Answer(Raised("ServiceUnavailable"), 1)
    ELSE LET records == AlertRecords(outcome)
         IN  IF records # <<>>
             THEN Answer(Returned(Head(records)), 1)
             ELSE Answer(Returned([error |-> <<"Alert ", alert_id, " not found">>]), 1)

get_alerts_by_type(misconduct_type, limit, outcome) ==
    IF outcome = "fails"
    THEN Answer(Raised("ServiceUnavailable"), 1)
    ELSE LET records == Limit(AlertRecords(outcome), limit)
         IN  Answer(Returned([misconduct_type |-> misconduct_type,
                              total_alerts |-> Len(records),
                              alerts |-> records]), 1)

get_trader_network(trader_name, depth, outcome) ==
    IF outcome = "fails"
    THEN Answer(Raised("ServiceUnavailable"), 1)
    ELSE Answer(Returned([central_trader |-> trader_name,
                          network_depth |-> depth,
                          connected_traders |-> NetworkRecords(outcome)]), 1)

\* arguments[key] of a dict that lacks the key; str() of the exception is the
\* key in quotes, written here as the key
KeyError(key) == Answer(Raised(key), 0)

\* arguments.get(key, default)
DictGet(d, key, default) == IF key \in DOMAIN d THEN d[key] ELSE default

\* the names of the if/elif chain of call_tool
DispatchNames ==
    {"get_alerts_for_trader", "get_alert_workflow", "get_alerts_by_type",
     "get_trader_network"}

\* the if/elif chain of call_tool
dispatch(name, arguments, outcome) ==
    IF name = "get_alerts_for_trader"
    THEN IF "trader_name" \notin DOMAIN arguments
         THEN KeyError("trader_name")
         ELSE get_alerts_for_trader(arguments.trader_name,
                                    DictGet(arguments, "limit", 10), outcome)
    ELSE IF name = "get_alert_workflow"
    THEN IF "alert_id" \notin DOMAIN arguments
         THEN KeyError("alert_id")
         ELSE get_alert_workflow(arguments.alert_id, outcome)
    ELSE IF name = "get_alerts_by_type"
    THEN IF "misconduct_type" \notin DOMAIN arguments
         THEN KeyError("misconduct_type")
         ELSE get_alerts_by_type(arguments.misconduct_type,
                                 DictGet(arguments, "limit", 10), outcome)
    ELSE IF name = "get_trader_network"
    THEN IF "trader_name" \notin DOMAIN arguments
         THEN KeyError("trader_name")
         ELSE get_trader_network(arguments.trader_name,
                                 DictGet(arguments, "depth", 2), outcome)
    ELSE Answer(Returned([error |-> <<"Unknown tool: ", name>>]), 0)

\* whether json.dumps accepts a result of the query methods
json_serializable(value) ==
    /\ "alerts" \in DOMAIN value =>
          \A i \in 1..Len(value.alerts) : value.alerts[i].created_date \notin TemporalValues
    /\ "created_date" \in DOMAIN value => value.created_date \notin TemporalValues

\* json.dumps(result, indent=2, default=str): every value is encoded
json_dumps_default_str(value) == Returned([syntax |-> "json", of |-> value])

\* json.dumps(result, indent=2): the JSON text of a value
json_dumps(value) ==
    IF json_serializable(value)
    THEN Returned([syntax |-> "json", of |-> value])
    ELSE Raised("Object of type DateTime is not JSON serializable")

\* json.loads(text)
json_loads(text) ==
    IF text.syntax = "json" THEN Returned(text.of) ELSE Raised("JSONDecodeError")

\* f"Error: {str(e)}"
error_text(e) == [syntax |-> "plain", of |-> <<"Error: ", e>>]

TextContent(text) == [type |-> "text", text |-> text]

\* the body of call_tool's try block
server_call_tool_try(name, arguments, outcome) ==
    LET d == dispatch(name, arguments, outcome)
    IN  IF d.raised
        THEN d
        ELSE LET j == json_dumps(d.value)
             IN  IF j.raised
                 THEN Answer(j, d.queries)
                 ELSE Answer(Returned(<<TextContent(j.value)>>), d.queries)

\* call_tool without its except clause
server_call_tool_unhandled(name, arguments, outcome) ==
    server_call_tool_try(name, arguments, outcome)

\* call_tool: every Exception of the try block becomes an error text
server_call_tool(name, arguments, outcome) ==
    LET r == server_call_tool_try(name, arguments, outcome)
    IN  IF r.raised
        THEN Answer(Returned(<<TextContent(error_text(r.exc))>>), r.queries)
        ELSE r

DeclaredNames == {server_list_tools[i].name : i \in DOMAIN server_list_tools}

RequestNames == DeclaredNames \cup {"search_alerts_by_criteria", "get_real_time_alerts", ""}

ArgValues ==
    [trader_name |-> "Bill Lyons", alert_id |-> "A1", misconduct_type |-> "spoofing",
     limit |-> 1, depth |-> 2]

ArgumentObjects == {[k \in S |-> ArgValues[k]] : S \in SUBSET (DOMAIN ArgValues)}

server_serve ==
    /\ calls_made < MaxCalls
    /\ calls_made' = calls_made + 1
    /\ \E name \in RequestNames, arguments \in ArgumentObjects, outcome \in StoreOutcomes :
          /\ request' = [name |-> name, arguments |-> arguments, store |-> outcome]
          /\ served' = server_call_tool(name, arguments, outcome)
    /\ UNCHANGED <<pipeVars, insightVars, clientVars, gmsVars, restVars>>

FacadeNext == server_serve

FacadeSpec == Init /\ [][FacadeNext]_vars

-----------------------------------------------------------------------------
(* gms_neo4j_mcp_server: the graph store and the query tools.  A query is  *)
(* modelled by what its Cypher text matches and returns over a store.  The *)
(* tools read the store and keep nothing between calls: a behaviour is one *)
(* call of one tool on one store.                                          *)

MaxRels == 3
MaxDepth == 2

\* Trader nodes of the store, in the order of their names
TraderOrder == <<"Ann", "Bob", "Cy">>

Traders == {TraderOrder[i] : i \in DOMAIN TraderOrder}

\* the name a query is asked about: a trader of the store or an unknown one
TraderNames == Traders \cup {"Zed"}

\* start and end node of a TRADES_WITH relation; the pattern of the query is
\* undirected, so one direction per pair is enumerated
TraderPairs == {<<"Ann", "Bob">>, <<"Bob", "Cy">>, <<"Ann", "Cy">>}

RelProps == {"desk", "book"}

RelIds == 1..MaxRels

NoRel == [absent |-> TRUE]

\* the TRADES_WITH relations of a store: several may join the same two traders
RelationSets ==
    [RelIds -> {NoRel} \cup {[from |-> p[1], to |-> p[2], props |-> x] :
                               p \in TraderPairs, x \in RelProps}]

other_end(rel, node) == IF rel.from = node THEN rel.to ELSE rel.from

\* relations of the store at a node that a path has not used yet
relations_at(rels, node, used) ==
    {r \in RelIds \ used : rels[r] # NoRel /\ node \in {rels[r].from, rels[r].to}}

\* -[:TRADES_WITH*1..k]- from node: every path of 1 to k relations, a
\* relation being traversed at most once in a path, in either direction
RECURSIVE paths_from(_, _, _, _)
paths_from(rels, node, used, k) ==
    IF k < 1
    THEN {}
    ELSE UNION {
           LET nxt == other_end(rels[r], node)
           IN  {[rel_ids |-> <<r>>, end |-> nxt]} \cup
               {[rel_ids |-> <<r>> \o p.rel_ids, end |-> p.end] :
                    p \in paths_from(rels, nxt, used \cup {r}, k - 1)}
           : r \in relations_at(rels, node, used)}

\* RETURN DISTINCT connected.name, length(path), [rel in relationships(path) | ...]
network_rows(rels, trader_name, depth) ==
    {[connected_trader |-> p.end,
      degrees_of_separation |-> Len(p.rel_ids),
      relationships |-> [i \in 1..Len(p.rel_ids) |->
                            [type |-> "TRADES_WITH",
                             properties |-> rels[p.rel_ids[i]].props]]] :
        p \in paths_from(rels, trader_name, {}, depth)}

\* every order of the elements of a set
RECURSIVE orderings(_)
orderings(S) ==
    IF S = {} THEN {<<>>}
    ELSE UNION {{<<x>> \o t : t \in orderings(S \ {x})} : x \in S}

\* ORDER BY an ascending key: every order of the rows in which keys never
\* decrease, rows of equal key in any order
RECURSIVE order_by_key(_)
order_by_key(K) ==
    IF K = {} THEN {<<>>}
    ELSE LET m == Min({k.key : k \in K})
             first == {k \in K : k.key = m}
         IN  {h \o t : h \in orderings({k.row : k \in first}),
                       t \in order_by_key(K \ first)}

\* position of a trader name in the order of names
name_rank(name) == CHOOSE i \in DOMAIN TraderOrder : TraderOrder[i] = name

\* ORDER BY degrees_of_separation, connected_trader
network_order(rows) ==
    order_by_key({[key |-> r.degrees_of_separation * (Len(TraderOrder) + 1)
                             + name_rank(r.connected_trader),
                   row |-> r] : r \in rows})

\* the depths a caller passes
DepthArgs == -1..MaxDepth

\* get_trader_network: the outcomes of one call.  The bound of the
\* variable-length pattern is given as a query parameter, which the store
\* either evaluates or rejects with the query text.
gms_get_trader_network(rels, trader_name, depth, accepts) ==
    IF ~accepts
    THEN {Answer(Raised("CypherSyntaxError"), 1)}
    ELSE {Answer(Returned([central_trader |-> trader_name,
                           network_depth |-> depth,
                           connected_traders |-> records]), 1) :
             records \in network_order(network_rows(rels, trader_name, depth))}

call_get_trader_network ==
    /\ ~gms_call.made
    /\ \E rels \in RelationSets, trader_name \in TraderNames, depth \in DepthArgs,
          accepts \in BOOLEAN :
          \E outcome \in gms_get_trader_network(rels, trader_name, depth, accepts) :
             gms_call' = [made |-> TRUE, tool |-> "get_trader_network", store |-> rels,
                          arguments |-> [trader_name |-> trader_name, depth |-> depth],
                          outcome |-> outcome]
    /\ UNCHANGED <<pipeVars, insightVars, clientVars, facadeVars, restVars>>

\* Alert nodes: alert_id is unique in the store, an alert has at most one
\* workflow, so a query returns at most one row per alert

MaxAlerts == 2

AlertNames == <<"A1", "A2", "A3", "A4">>

AlertIds == {AlertNames[i] : i \in 1..MaxAlerts}

\* created_date values of the store, as day numbers, and their text form
DateStrings == <<"2024-01-01", "2024-01-02">>

Dates == DOMAIN DateStrings

\* date($text)
date(text) == CHOOSE d \in Dates : DateStrings[d] = text

\* Order nodes an alert may contain
Orders ==
    {[order_id |-> "O1", venue_mic |-> "XNYS", asset_type |-> "equity",
      visible_usd_quantity |-> 100],
     [order_id |-> "O2", venue_mic |-> "XLON", asset_type |-> "bond",
      visible_usd_quantity |-> 0]}

NoAlert == [absent |-> TRUE]

\* the Alert nodes of a store with their INVOLVED_IN trader and CONTAINS orders
AlertStores(traders, order_sets) ==
    [AlertIds -> {NoAlert} \cup
                 {[created_date |-> d, trader |-> t, orders |-> o] :
                     d \in Dates, t \in traders, o \in order_sets}]

\* stores for the queries by trader and by alert id
TraderStores == AlertStores({"Ann", "Bob"}, {{}})

\* stores for the search by criteria
OrderStores == AlertStores({"Ann"}, SUBSET Orders)

\* the row a query returns for an alert
alert_row(store, id) ==
    [alert_id |-> id, created_date |-> store[id].created_date,
     traders |-> {store[id].trader}, orders |-> store[id].orders]

\* rows in any order
unordered(rows) == orderings(rows)

\* ORDER BY a.created_date DESC
order_by_created_desc(rows) ==
    order_by_key({[key |-> 0 - r.created_date, row |-> r] : r \in rows})

\* ORDER BY ... LIMIT $limit of a query: the store rejects a negative limit
order_and_limit(rows, limit) ==
    IF limit < 0
    THEN {Raised("CypherArgumentError")}
    ELSE {Returned(Limit(o, limit)) : o \in order_by_created_desc(rows)}

\* get_alerts_for_trader: the outcomes of one call
gms_get_alerts_for_trader(store, trader_name, limit) ==
    LET rows == {alert_row(store, id) :
                    id \in {i \in AlertIds : store[i] # NoAlert /\ store[i].trader = trader_name}}
    IN  {IF r.raised
         THEN Answer(r, 1)
         ELSE Answer(Returned([trader_name |-> trader_name,
                               total_alerts |-> Len(r.value),
                               alerts |-> r.value]), 1) :
            r \in order_and_limit(rows, limit)}

\* get_alert_workflow that raises for an alert it does not find
gms_get_alert_workflow_raising(store, alert_id) ==
    IF alert_id \in AlertIds /\ store[alert_id] # NoAlert
    THEN Answer(Returned(alert_row(store, alert_id)), 1)
    ELSE Answer(Raised(<<"Alert ", alert_id, " not found">>), 1)

\* get_alert_workflow: result.single() is the row of the alert, or None
gms_get_alert_workflow(store, alert_id) ==
    IF alert_id \in AlertIds /\ store[alert_id] # NoAlert
    THEN Answer(Returned(alert_row(store, alert_id)), 1)
    ELSE Answer(Returned([error |-> <<"Alert ", alert_id, " not found">>]), 1)

\* an Optional argument: None, or a value
PyNone == [none |-> TRUE]

Some(v) == [some |-> v]

\* `if x:` for a text argument and for a number argument
truthy_str(x) == x # PyNone /\ x.some # ""

truthy_num(x) == x # PyNone /\ x.some # 0

\* the where_clauses search_alerts_by_criteria builds, by criterion
where_clauses(start_date, end_date, venue, asset_type, min_amount) ==
    {c \in {"start_date", "end_date", "venue", "asset_type", "min_amount"} :
        \/ c = "start_date" /\ truthy_str(start_date)
        \/ c = "end_date" /\ truthy_str(end_date)
        \/ c = "venue" /\ truthy_str(venue)
        \/ c = "asset_type" /\ truthy_str(asset_type)
        \/ c = "min_amount" /\ truthy_num(min_amount)}

\* WITH a, collect(o) as orders WHERE <clauses joined by AND>
where_holds(alert, clauses, start_date, end_date, venue, asset_type, min_amount) ==
    /\ "start_date" \in clauses => alert.created_date >= date(start_date.some)
    /\ "end_date" \in clauses => alert.created_date <= date(end_date.some)
    /\ "venue" \in clauses => \E o \in alert.orders : o.venue_mic = venue.some
    /\ "asset_type" \in clauses => \E o \in alert.orders : o.asset_type = asset_type.some
    /\ "min_amount" \in clauses =>
          \E o \in alert.orders : o.visible_usd_quantity >= min_amount.some

\* search_alerts_by_criteria: the outcomes of one call
search_alerts_by_criteria(store, start_date, end_date, venue, asset_type, min_amount, limit) ==
    LET clauses == where_clauses(start_date, end_date, venue, asset_type, min_amount)
        rows == {alert_row(store, id) :
                    id \in {i \in AlertIds :
                              /\ store[i] # NoAlert
                              /\ where_holds(store[i], clauses, start_date, end_date,
                                             venue, asset_type, min_amount)}}
    IN  {IF r.raised
         THEN Answer(r, 1)
         ELSE Answer(Returned([search_criteria |->
                                  [start_date |-> start_date, end_date |-> end_date,
                                   venue |-> venue, asset_type |-> asset_type,
                                   min_amount |-> min_amount],
                               total_results |-> Len(r.value),
                               alerts |-> r.value]), 1) :
            r \in order_and_limit(rows, limit)}

\* the arguments the tools are called with
LimitArgs == {-1, 0, 1, 10, 20}

AlertIdArgs == AlertIds \cup {"A9"}

StartDateArgs == {PyNone, Some("2024-01-02")}

EndDateArgs == {PyNone, Some("2024-01-01")}

VenueArgs == {PyNone, Some("XNYS")}

AssetTypeArgs == {PyNone, Some("bond")}

MinAmountArgs == {PyNone, Some(0), Some(100)}

SearchLimitArgs == {1, 20}

call_get_alerts_for_trader ==
    /\ ~gms_call.made
    /\ \E store \in TraderStores, trader_name \in {"Ann", "Bob", "Zed"}, limit \in LimitArgs :
          \E outcome \in gms_get_alerts_for_trader(store, trader_name, limit) :
             gms_call' = [made |-> TRUE, tool |-> "get_alerts_for_trader", store |-> store,
                          arguments |-> [trader_name |-> trader_name, limit |-> limit],
                          outcome |-> outcome]
    /\ UNCHANGED <<pipeVars, insightVars, clientVars, facadeVars, restVars>>

call_get_alert_workflow ==
    /\ ~gms_call.made
    /\ \E store \in TraderStores, alert_id \in AlertIdArgs :
          gms_call' = [made |-> TRUE, tool |-> "get_alert_workflow", store |-> store,
                       arguments |-> [alert_id |-> alert_id],
                       outcome |-> gms_get_alert_workflow(store, alert_id)]
    /\ UNCHANGED <<pipeVars, insightVars, clientVars, facadeVars, restVars>>

call_search_alerts_by_criteria ==
    /\ ~gms_call.made
    /\ \E store \in OrderStores, start_date \in StartDateArgs, end_date \in EndDateArgs,
          venue \in VenueArgs, asset_type \in AssetTypeArgs, min_amount \in MinAmountArgs,
          limit \in SearchLimitArgs :
          \E outcome \in search_alerts_by_criteria(store, start_date, end_date, venue,
                                                   asset_type, min_amount, limit) :
             gms_call' = [made |-> TRUE, tool |-> "search_alerts_by_criteria",
                          store |-> store,
                          arguments |-> [start_date |-> start_date, end_date |-> end_date,
                                         venue |-> venue, asset_type |-> asset_type,
                                         min_amount |-> min_amount, limit |-> limit],
                          outcome |-> outcome]
    /\ UNCHANGED <<pipeVars, insightVars, clientVars, facadeVars, restVars>>

GmsNext ==
    \/ call_get_alerts_for_trader
    \/ call_get_alert_workflow
    \/ call_get_trader_network
    \/ call_search_alerts_by_criteria

GmsSpec == Init /\ [][GmsNext]_vars

-----------------------------------------------------------------------------
(* gms_rest_api_mcp_server: ApiService and the four REST tools *)

\* ApiService.get_session: the session after the call
get_session(sess) == IF sess = None THEN "open" ELSE sess

\* ApiService.close_session
close_session(sess) == IF sess # None THEN "closed" ELSE sess

\* what the upstream API can answer
UpstreamStatuses == {200, 201, 204, 404, 500}

UpstreamBodies ==
    {[syntax |-> "json", of |-> [alerts |-> <<"R1">>]],
     [syntax |-> "json", of |-> [detail |-> "upstream"]],
     [syntax |-> "plain", of |-> [html |-> "gateway"]]}

\* an exchange with the upstream API: a response, or no connection
Upstream ==
    {[refused |-> FALSE, status |-> st, body |-> b] :
        st \in UpstreamStatuses, b \in UpstreamBodies}
    \cup {[refused |-> TRUE]}

\* `async with session.get/post(...) as response:` on a session
http_request(sess, upstream) ==
    IF sess # "open" THEN Raised("Session is closed")
    ELSE IF upstream.refused THEN Raised("ClientConnectorError")
    ELSE Returned(upstream)

\* the branch of a tool on response.status
on_response(r, success, error) ==
    IF r.raised THEN r
    ELSE IF r.value.status = 200 THEN success
    ELSE Returned(error)

\* await response.json()
response_json(r) == IF r.raised THEN r ELSE json_loads(r.value.body)

get_real_time_alerts(sess, upstream, status, limit) ==
    LET r == http_request(sess, upstream)
    IN  on_response(r, response_json(r), [error |-> <<"API error: ", r.value.status>>])

get_trader_profile(sess, upstream, trader_id) ==
    LET r == http_request(sess, upstream)
    IN  on_response(r, response_json(r), [error |-> <<"Trader not found: ", trader_id>>])

submit_alert_feedback(sess, upstream, alert_id, disposition, commentary) ==
    LET r == http_request(sess, upstream)
    IN  on_response(r, Returned([success |-> TRUE, message |-> "Feedback submitted"]),
                    [error |-> <<"Failed to submit feedback: ", r.value.status>>])

get_market_data(sess, upstream, symbol, start_time, end_time) ==
    LET r == http_request(sess, upstream)
    IN  on_response(r, response_json(r), [error |-> <<"Market data error: ", r.value.status>>])

MaxPending == 2

\* ApiService.get_session that constructs a session on every call
sessions_constructed_each_call(sess, n) == n + 1

\* ApiService.get_session: the sessions constructed so far, after the call
sessions_constructed(sess, n) == IF sess = None THEN n + 1 ELSE n

\* a tool is called: it takes the session of get_session, which has no await
\* between its test and its assignment, and suspends in its request
rest_tool(tool, arguments) ==
    /\ rest_up
    /\ Len(in_flight) < MaxPending
    /\ api_session' = get_session(api_session)
    /\ created' = sessions_constructed(api_session, created)
    /\ in_flight' = Append(in_flight, [tool |-> tool, arguments |-> arguments,
                                       session |-> created'])
    /\ UNCHANGED <<rest_call, rest_up, pipeVars, insightVars, clientVars, facadeVars, gmsVars>>

call_get_real_time_alerts ==
    \E status \in {PyNone, Some("active")} :
        rest_tool("get_real_time_alerts", [status |-> status, limit |-> 20])

call_get_trader_profile ==
    \E trader_id \in {"Bill Lyons", "T-404"} :
        rest_tool("get_trader_profile", [trader_id |-> trader_id])

call_submit_alert_feedback ==
    \E commentary \in {PyNone, Some("reviewed")} :
        rest_tool("submit_alert_feedback",
                  [alert_id |-> "A1", disposition |-> "dismissed", commentary |-> commentary])

call_get_market_data ==
    \E start_time \in {PyNone, Some("2024-01-01T00:00:00")} :
        rest_tool("get_market_data",
                  [symbol |-> "XYZ", start_time |-> start_time, end_time |-> PyNone])

\* what a suspended tool call returns for an exchange with the upstream API
tool_outcome(c, sess, upstream) ==
    CASE c.tool = "get_real_time_alerts" ->
            get_real_time_alerts(sess, upstream, c.arguments.status, c.arguments.limit)
      [] c.tool = "get_trader_profile" ->
            get_trader_profile(sess, upstream, c.arguments.trader_id)
      [] c.tool = "submit_alert_feedback" ->
            submit_alert_feedback(sess, upstream, c.arguments.alert_id,
                                  c.arguments.disposition, c.arguments.commentary)
      [] c.tool = "get_market_data" ->
            get_market_data(sess, upstream, c.arguments.symbol, c.arguments.start_time,
                            c.arguments.end_time)

\* the request of a suspended tool call ends and the tool returns or raises
rest_respond ==
    /\ \E i \in DOMAIN in_flight, upstream \in Upstream :
          LET c == in_flight[i]
          IN  /\ rest_call' = [made |-> TRUE, tool |-> c.tool, arguments |-> c.arguments,
                               session |-> c.session, upstream |-> upstream,
                               outcome |-> tool_outcome(c, api_session, upstream)]
              /\ in_flight' = SubSeq(in_flight, 1, i - 1)
                                 \o SubSeq(in_flight, i + 1, Len(in_flight))
    /\ UNCHANGED <<api_session, created, rest_up, pipeVars, insightVars, clientVars, facadeVars, gmsVars>>

\* the shutdown handler of the server
rest_shutdown ==
    /\ rest_up
    /\ rest_up' = FALSE
    /\ api_session' = close_session(api_session)
    /\ UNCHANGED <<rest_call, created, in_flight, pipeVars, insightVars, clientVars, facadeVars, gmsVars>>

RestNext ==
    \/ call_get_real_time_alerts
    \/ call_get_trader_profile
    \/ call_submit_alert_feedback
    \/ call_get_market_data
    \/ rest_respond
    \/ rest_shutdown

RestSpec == Init /\ [][RestNext]_vars

(***************************************************************************)
(* The filter of _generate_insights on its own (langgraph_agent.py,        *)
(* lines 294-302): a response of the model is split into lines, each line  *)
(* a body with spaces before it and after it.                              *)
(***************************************************************************)
MaxIndent == 3
MaxLines == 2

RECURSIVE spaces(_)
spaces(n) == IF n = 0 THEN <<>> ELSE <<" ">> \o spaces(n - 1)

LineBodies == {<<>>, <<"1", ".">>, <<"a", "1">>, <<"a", "b", "c", "1">>, <<"a">>}

ResponseLines ==
    {spaces(i) \o b \o t : i \in 0..MaxIndent, b \in LineBodies, t \in {<<>>, <<" ">>}}

\* insights_text.split('\n'): at least one line, possibly empty
SplitResponses == UNION {[1..n -> ResponseLines] : n \in 1..MaxLines}

filter_response ==
    /\ ~insights_call.made
    /\ \E response \in SplitResponses :
          insights_call' = [made |-> TRUE, response |-> response,
                            insights |-> parse_insights(response)]
    /\ UNCHANGED <<pipeVars, clientVars, facadeVars, gmsVars, restVars>>

InsightsNext == filter_response

InsightsSpec == Init /\ [][InsightsNext]_vars

-----------------------------------------------------------------------------
(* Properties *)

HasError(v) == "error" \in DOMAIN v

FetchStages == {"fetch_neo4j_data", "fetch_api_data"}

\* some node of the current run raised
Failed == \E s \in Stages : pc[s] = "raised"

\* a step of the run in progress
run_step ==
    \/ parse_query
    \/ fetch_neo4j_enter
    \/ fetch_neo4j_alerts_return
    \/ fetch_neo4j_network_return
    \/ fetch_neo4j_spoofing_return
    \/ fetch_neo4j_wash_return
    \/ fetch_neo4j_exit
    \/ fetch_api_enter
    \/ fetch_api_real_time_return
    \/ fetch_api_profile_return
    \/ fetch_api_exit
    \/ analyze_data
    \/ generate_insights
    \/ superstep

\* the steps of the five nodes (1, 4, 4, 1, 1) and of the four supersteps
StepBudget == (1 + 4 + 4 + 1 + 1) + 4

C2_OnlyErrorAndInsights ==
    Failed =>
        /\ phase = "returned"
        /\ DOMAIN result = {"error", "insights"}
        /\ Len(result.insights) = 1

\* C2 as amended: when a node raised, process_query returned a record with
\* exactly the fields error, query and insights: query is the input text,
\* insights holds one entry describing the failure that error reports, and
\* nothing the earlier stages wrote is in the record.
C2_ErrorRecord ==
    Failed =>
        /\ phase = "returned"
        /\ DOMAIN result = {"error", "query", "insights"}
        /\ result.query = query_arg
        /\ Len(result.insights) = 1
        /\ result.error[1] = "Error processing query: "
        /\ result.insights[1][1] = "Failed to process query: "
        /\ result.insights[1][2] = result.error[2]

\* analyze_data raised after the fetch stages had stored data
C2_Witness ==
    /\ pc["analyze_data"] = "raised"
    /\ state.neo4j_data # EmptyDict
    /\ state.api_data # EmptyDict
    /\ HasError(result)

\* C3 as stated: for every query whose lowercased text contains "spoofing",
\* once fetch_neo4j_data has returned it has sent get_alerts_by_type
\* (misconduct_type "spoofing", limit 15) exactly once and nothing else, and
\* neo4j_data["spoofing_alerts"] holds what that call returned.
C3_SpoofingQueryFetchesSpoofingAlerts ==
    (/\ phase # "idle"
     /\ PhraseIn(<<"spoofing">>, lower(query_arg))
     /\ "fetch_neo4j_data" \in Completed) =>
        /\ sent["neo4j_client"] = <<type_call("spoofing")>>
        /\ "spoofing_alerts" \in DOMAIN state.neo4j_data
        /\ state.neo4j_data.spoofing_alerts = received["neo4j_client"][1]

\* the query of the scenario: fetch_neo4j_data returned without any call
C3_ScenarioSendsNothing ==
    /\ query_arg = <<"Show", "me", "all", "spoofing", "alerts", "from", "last", "week">>
    /\ "fetch_neo4j_data" \in Completed
    /\ sent["neo4j_client"] = <<>>
    /\ state.neo4j_data = EmptyDict

LastExchange == HttpExchange(client_call.kind, client_call.call)

\* C5: FastMCPClient.call_tool never raises; a response whose status is not
\* 200, and an exception while sending or decoding, both end as a dict whose
\* only key is "error", its value a message.
C5_ClientCallToolNeverRaises ==
    (client_call.made /\ client_call.op = "call_tool") =>
        /\ ~client_call.outcome.raised
        /\ (\/ client_call.session # "open"
            \/ LastExchange.raises
            \/ LastExchange.status # 200
            \/ ~LastExchange.json_ok) =>
              /\ DOMAIN client_call.outcome.value = {"error"}
              /\ client_call.outcome.value.error[1] \in {"HTTP error: ", "Connection error: "}

\* a 200 response that is no JSON ended as an error dict
C5_Witness ==
    /\ client_call.made
    /\ client_call.op = "call_tool"
    /\ client_call.session = "open"
    /\ client_call.kind = "not_json"
    /\ DOMAIN client_call.outcome.value = {"error"}

\* the request names a declared tool and lacks one of its required arguments
MissingRequired ==
    \E i \in DOMAIN server_list_tools :
        /\ server_list_tools[i].name = request.name
        /\ ~(server_list_tools[i].required \subseteq DOMAIN request.arguments)

\* one text element
IsEnvelope(v) == Len(v) = 1 /\ v[1].type = "text"

\* an envelope that reports an error: the text "Error: ..." or a JSON
\* object with an error key
IsErrorEnvelope(v) ==
    \/ v[1].text.syntax = "plain" /\ v[1].text.of[1] = "Error: "
    \/ v[1].text.syntax = "json" /\ HasError(v[1].text.of)

\* C6: for every declared tool name and every arguments object, call_tool
\* of the facade returns one text element and raises nothing; a missing
\* required argument and a failing store query both end as an error envelope.
C6_FacadeNeverRaises ==
    (calls_made > 0 /\ request.name \in DeclaredNames) =>
        /\ ~served.raised
        /\ IsEnvelope(served.value)
        /\ (MissingRequired \/ request.store = "fails") => IsErrorEnvelope(served.value)

\* a declared tool was called without its required argument
C6_Witness ==
    /\ calls_made > 0
    /\ request.name = "get_alert_workflow"
    /\ MissingRequired
    /\ ~served.raised
    /\ served.value[1].text = error_text("alert_id")

\* the envelope of the unknown-tool payload
UnknownToolEnvelope(name) ==
    <<TextContent([syntax |-> "json", of |-> [error |-> <<"Unknown tool: ", name>>]])>>

\* C7: a name outside the dispatch set is answered with the unknown-tool
\* payload, without a raise and without a store query; no declared tool is
\* answered with the unknown-tool payload.
C7_UnknownTool ==
    calls_made > 0 =>
        /\ request.name \notin DispatchNames =>
              /\ ~served.raised
              /\ served.value = UnknownToolEnvelope(request.name)
              /\ served.queries = 0
        /\ request.name \in DeclaredNames =>
              /\ ~served.raised
              /\ served.value # UnknownToolEnvelope(request.name)

\* a tool of the other server was asked for: unknown, no query
C7_Witness ==
    /\ calls_made > 0
    /\ request.name = "search_alerts_by_criteria"
    /\ request.store = "rows"
    /\ served.value = UnknownToolEnvelope("search_alerts_by_criteria")
    /\ served.queries = 0

\* C8 as stated: every outcome of call_tool is one text element whose text
\* decodes as JSON.
C8_EveryEnvelopeIsJson ==
    calls_made > 0 =>
        /\ ~served.raised
        /\ IsEnvelope(served.value)
        /\ ~json_loads(served.value[1].text).raised

\* what the dispatch of the last request did
LastDispatch == dispatch(request.name, request.arguments, request.store)

\* C8 as amended: every outcome of call_tool is one text element.  When the
\* dispatch returned a result that json.dumps encodes (a successful result,
\* the not-found and the unknown-tool payload), the text decodes to that
\* result; when the dispatch or the encoding raised, the text is
\* "Error: <message>", which is no JSON.
C8_JsonUnlessRaised ==
    calls_made > 0 =>
        /\ ~served.raised
        /\ IsEnvelope(served.value)
        /\ IF ~LastDispatch.raised /\ json_serializable(LastDispatch.value)
           THEN json_loads(served.value[1].text) = Returned(LastDispatch.value)
           ELSE /\ served.value[1].text.syntax = "plain"
                /\ served.value[1].text.of[1] = "Error: "
                /\ json_loads(served.value[1].text).raised

\* a store failure was answered with a text that is no JSON
C8_Witness ==
    /\ calls_made > 0
    /\ request.name = "get_alerts_by_type"
    /\ "misconduct_type" \in DOMAIN request.arguments
    /\ request.store = "fails"
    /\ served.value[1].text = error_text("ServiceUnavailable")

\* C9: parse_query has returned when a fetch stage starts, both fetch stages
\* have returned when analyze_data starts, analyze_data has returned when
\* generate_insights starts; what analyze_data read stays the neo4j_data and
\* api_data of the state for the rest of the run.
C9_StageOrder ==
    /\ \A s \in FetchStages : executed[s] > 0 => "parse_query" \in done_at_start[s]
    /\ executed["analyze_data"] > 0 => FetchStages \subseteq done_at_start["analyze_data"]
    /\ executed["generate_insights"] > 0 =>
          "analyze_data" \in done_at_start["generate_insights"]
    /\ seen # NotSeen =>
          /\ seen.neo4j_data = state.neo4j_data
          /\ seen.api_data = state.api_data
    /\ (phase = "returned" /\ ~Failed) =>
          /\ seen.neo4j_data = result.neo4j_data
          /\ seen.api_data = result.api_data

\* generate_insights ran after an analysis that read fetched graph data
C9_Witness ==
    /\ executed["generate_insights"] = 1
    /\ seen # NotSeen
    /\ "network" \in DOMAIN seen.neo4j_data
    /\ "real_time_alerts" \in DOMAIN seen.api_data

\* what the two fetch stages leave in the state when one runs after the other,
\* given the replies each client got
expected_neo4j(q, replies) ==
    LET first == neo4j_first(lower(q))
    IN  CASE first.at = "await_alerts" -> [alerts |-> replies[1], network |-> replies[2]]
          [] first.at = "await_spoofing" -> [spoofing_alerts |-> replies[1]]
          [] first.at = "await_wash" -> [wash_trading_alerts |-> replies[1]]
          [] OTHER -> EmptyDict

expected_api(q, replies) ==
    IF PhraseIn(BillLyons, lower(q))
    THEN [real_time_alerts |-> replies[1], trader_profile |-> replies[2]]
    ELSE [real_time_alerts |-> replies[1]]

GmsReturned(tool) == gms_call.made /\ gms_call.tool = tool /\ ~gms_call.outcome.raised

\* C11 as stated: get_trader_network with depth d returns no connected trader
\* whose degrees_of_separation exceeds d and never the central trader itself,
\* whatever the TRADES_WITH relations of the store (cycles and several
\* relations between the same two traders included).
C11_WithinDepthWithoutCentral ==
    GmsReturned("get_trader_network") =>
        LET records == gms_call.outcome.value.connected_traders
        IN  \A i \in 1..Len(records) :
               /\ records[i].degrees_of_separation <= gms_call.arguments.depth
               /\ records[i].connected_trader # gms_call.arguments.trader_name

\* two relations join Ann and Bob: the network of Ann at depth 2 lists Ann
C11_CentralReturned ==
    /\ GmsReturned("get_trader_network")
    /\ gms_call.arguments = [trader_name |-> "Ann", depth |-> 2]
    /\ \A r \in RelIds :
          gms_call.store[r] # NoRel => gms_call.store[r].from = "Ann" /\ gms_call.store[r].to = "Bob"
    /\ \E i \in 1..Len(gms_call.outcome.value.connected_traders) :
          /\ gms_call.outcome.value.connected_traders[i].connected_trader = "Ann"
          /\ gms_call.outcome.value.connected_traders[i].degrees_of_separation = 2

\* the traders within depth hops of a trader, and their breadth-first distance
reachable(rels, trader_name, depth) ==
    {p.end : p \in paths_from(rels, trader_name, {}, depth)} \ {trader_name}

hops(rels, trader_name, depth, t) ==
    Min({Len(p.rel_ids) : p \in {q \in paths_from(rels, trader_name, {}, depth) : q.end = t}})

\* C12 as stated: get_trader_network returns each distinct trader reachable
\* within depth hops exactly once, with degrees_of_separation its minimum hop
\* count from the central trader, the rows ordered by hop count, then name.
C12_EachTraderOnceAtMinimumHops ==
    GmsReturned("get_trader_network") =>
        LET records == gms_call.outcome.value.connected_traders
            rels == gms_call.store
            central == gms_call.arguments.trader_name
            depth == gms_call.arguments.depth
        IN  /\ {records[i].connected_trader : i \in 1..Len(records)}
                  = reachable(rels, central, depth)
            /\ \A i, j \in 1..Len(records) :
                  records[i].connected_trader = records[j].connected_trader => i = j
            /\ \A i \in 1..Len(records) :
                  records[i].degrees_of_separation
                     = hops(rels, central, depth, records[i].connected_trader)
            /\ \A i, j \in 1..Len(records) :
                  i < j =>
                     \/ records[i].degrees_of_separation < records[j].degrees_of_separation
                     \/ /\ records[i].degrees_of_separation = records[j].degrees_of_separation
                        /\ name_rank(records[i].connected_trader)
                              <= name_rank(records[j].connected_trader)

\* Ann-Bob, Bob-Cy and Ann-Cy: the network of Ann at depth 2 lists Cy at one
\* hop and again at two hops
C12_TraderListedTwice ==
    /\ GmsReturned("get_trader_network")
    /\ gms_call.arguments = [trader_name |-> "Ann", depth |-> 2]
    /\ \E i, j \in 1..Len(gms_call.outcome.value.connected_traders) :
          /\ gms_call.outcome.value.connected_traders[i].connected_trader = "Cy"
          /\ gms_call.outcome.value.connected_traders[j].connected_trader = "Cy"
          /\ gms_call.outcome.value.connected_traders[i].degrees_of_separation = 1
          /\ gms_call.outcome.value.connected_traders[j].degrees_of_separation = 2

\* C13 as stated: a query of get_trader_network is issued only for a depth
\* that is a positive integer; a depth of zero or less is rejected without
\* a query.
C13_DepthValidatedBeforeQuery ==
    (gms_call.made /\ gms_call.tool = "get_trader_network"
        /\ gms_call.outcome.queries > 0) =>
        gms_call.arguments.depth >= 1

\* a query was issued for depth 0
C13_QueryIssuedForDepthZero ==
    /\ gms_call.made
    /\ gms_call.tool = "get_trader_network"
    /\ gms_call.arguments.depth = 0
    /\ gms_call.outcome.queries = 1

\* the criteria a caller supplied: every argument that is not None
supplied(arguments) ==
    {c \in {"start_date", "end_date", "venue", "asset_type", "min_amount"} :
        arguments[c] # PyNone}

\* C14 as stated: search_alerts_by_criteria returns exactly the alerts that
\* satisfy every supplied criterion, newest first and at most limit; a date
\* criterion bounds created_date, a venue, asset_type or min_amount criterion
\* needs one matching order; every value passed, min_amount 0 included, counts
\* as supplied, and no criterion gives the unfiltered listing.
C14_ExactlyTheAlertsOfTheSuppliedCriteria ==
    GmsReturned("search_alerts_by_criteria") =>
        LET a == gms_call.arguments
            store == gms_call.store
            expected == {alert_row(store, id) :
                           id \in {i \in AlertIds :
                                     /\ store[i] # NoAlert
                                     /\ where_holds(store[i], supplied(a), a.start_date,
                                                    a.end_date, a.venue, a.asset_type,
                                                    a.min_amount)}}
        IN  /\ Returned(gms_call.outcome.value.alerts) \in order_and_limit(expected, a.limit)
            /\ gms_call.outcome.value.total_results = Len(gms_call.outcome.value.alerts)

\* min_amount 0 was passed and an alert without any order was returned
C14_MinAmountZeroIgnored ==
    /\ GmsReturned("search_alerts_by_criteria")
    /\ gms_call.arguments.min_amount = Some(0)
    /\ \E i \in 1..Len(gms_call.outcome.value.alerts) :
          gms_call.outcome.value.alerts[i].orders = {}

\* C15: get_alerts_for_trader with limit N returns at most N records,
\* total_alerts is the number of records returned, the records are in
\* non-increasing order of created_date, and each is an alert of the trader.
C15_AtMostLimitNewestFirst ==
    GmsReturned("get_alerts_for_trader") =>
        LET v == gms_call.outcome.value
        IN  /\ Len(v.alerts) <= gms_call.arguments.limit
            /\ v.total_alerts = Len(v.alerts)
            /\ \A i, j \in 1..Len(v.alerts) :
                  i < j => v.alerts[i].created_date >= v.alerts[j].created_date
            /\ \A i \in 1..Len(v.alerts) :
                  v.alerts[i].traders = {gms_call.arguments.trader_name}

\* the trader has an older and a newer alert, limit 1 returned the newer one
C15_Witness ==
    /\ GmsReturned("get_alerts_for_trader")
    /\ gms_call.arguments = [trader_name |-> "Ann", limit |-> 1]
    /\ \A id \in AlertIds : gms_call.store[id] # NoAlert /\ gms_call.store[id].trader = "Ann"
    /\ gms_call.store["A1"].created_date < gms_call.store["A2"].created_date
    /\ gms_call.outcome.value.total_alerts = 1
    /\ gms_call.outcome.value.alerts[1].alert_id = "A2"

\* C16: for an alert identifier that matches no Alert of the store,
\* get_alert_workflow returns {"error": "Alert <id> not found"} and raises
\* nothing; for one that matches it returns the record of that alert, which
\* has no error field.
C16_NotFoundIsAValue ==
    (gms_call.made /\ gms_call.tool = "get_alert_workflow") =>
        LET id == gms_call.arguments.alert_id
            found == id \in AlertIds /\ gms_call.store[id] # NoAlert
        IN  /\ ~gms_call.outcome.raised
            /\ ~found => gms_call.outcome.value = [error |-> <<"Alert ", id, " not found">>]
            /\ found =>
                  /\ ~HasError(gms_call.outcome.value)
                  /\ gms_call.outcome.value.alert_id = id
                  /\ gms_call.outcome.value.created_date = gms_call.store[id].created_date

\* an identifier the store does not hold was answered with the error value
C16_Witness ==
    /\ gms_call.made
    /\ gms_call.tool = "get_alert_workflow"
    /\ gms_call.arguments.alert_id = "A9"
    /\ gms_call.store["A1"] # NoAlert
    /\ gms_call.outcome.value = [error |-> <<"Alert ", "A9", " not found">>]

\* C17 as stated: each REST tool returns the upstream JSON body unchanged when
\* the response status is 2xx, and returns an {"error": ...} payload exactly
\* when the status is not 2xx.
C17_BodyOn2xxErrorOtherwise ==
    (/\ rest_call.made
     /\ ~rest_call.upstream.refused
     /\ rest_call.upstream.body.syntax = "json"
     /\ api_session = "open") =>
        /\ ~rest_call.outcome.raised
        /\ rest_call.upstream.status \in 200..299 =>
              rest_call.outcome.value = rest_call.upstream.body.of
        /\ rest_call.upstream.status \notin 200..299 <=> HasError(rest_call.outcome.value)

\* the upstream API answered a feedback with 201 and a body: an error payload
C17_CreatedTakenAsFailure ==
    /\ rest_call.made
    /\ rest_call.tool = "submit_alert_feedback"
    /\ ~rest_call.upstream.refused
    /\ rest_call.upstream.status = 201
    /\ rest_call.outcome = Returned([error |-> <<"Failed to submit feedback: ", 201>>])

\* the field of the state a fan-out stage is to write, and its client
own_field(s) == IF s = "fetch_neo4j_data" THEN "neo4j_data" ELSE "api_data"

client_of(s) == IF s = "fetch_neo4j_data" THEN "neo4j_client" ELSE "api_client"

\* C18 as stated: the update fetch_neo4j_data produces writes only neo4j_data,
\* the update fetch_api_data produces writes only api_data, so no field of the
\* state is written by both stages in their step.
C18_DisjointWrites ==
    /\ \A s \in FetchStages :
          s \in Completed => DOMAIN node_update(s) = {own_field(s)}
    /\ FetchStages \subseteq Completed =>
          DOMAIN node_update("fetch_neo4j_data") \cap DOMAIN node_update("fetch_api_data") = {}

\* both fan-out stages have returned, each an update that holds query
C18_BothUpdatesHoldQuery ==
    /\ phase = "running"
    /\ FetchStages \subseteq Completed
    /\ \A s \in FetchStages : "query" \in DOMAIN node_update(s)

\* the stages that call the LLM
LLMStages == {"parse_query", "analyze_data", "generate_insights"}

\* C19: in a run the LLM is invoked at most three times, once by each of
\* parse_query, analyze_data and generate_insights that was started; no tool
\* call is sent twice on a client, whatever was returned for it, at most one
\* call of a client is unanswered, and a fetch stage that has returned sent
\* one call for each result it received.
C19_NoCallReissued ==
    phase # "idle" =>
        /\ llm_calls <= 3
        /\ llm_calls = executed["parse_query"] + executed["analyze_data"]
                          + executed["generate_insights"]
        /\ \A s \in FetchStages :
              LET c == client_of(s)
              IN  /\ \A i, j \in 1..Len(sent[c]) : sent[c][i] = sent[c][j] => i = j
                  /\ Len(sent[c]) - Len(received[c]) \in {0, 1}
                  /\ Len(sent[c]) <= 2
                  /\ s \in Completed => Len(sent[c]) = Len(received[c])

\* a run ended after three LLM calls; the first graph call had returned an
\* error payload and was followed by the second call only
C19_Witness ==
    /\ phase = "returned"
    /\ ~Failed
    /\ llm_calls = 3
    /\ Len(sent["neo4j_client"]) = 2
    /\ HasError(received["neo4j_client"][1])
    /\ sent["neo4j_client"][1].name = "get_alerts_for_trader"
    /\ sent["neo4j_client"][2].name = "get_trader_network"

\* C20: a call of a client is unanswered only while its session is open, and
\* the session of a client is not open once its fetch stage has finished,
\* was cancelled or the run has returned, in every run on the agent.
C20_SessionScopedToStage ==
    \A s \in FetchStages :
        LET c == client_of(s)
        IN  /\ Len(sent[c]) > Len(received[c]) => session[c] = "open"
            /\ (\/ phase \in {"idle", "returned"}
                \/ pc[s] \in {"off", "done", "raised", "cancelled", "ready"}) =>
                  session[c] # "open"
            /\ executed[s] > 0 => session[c] # None

\* the second run on the agent returned: both sessions acquired and released
C20_Witness ==
    /\ run = 2
    /\ phase = "returned"
    /\ ~Failed
    /\ \A c \in Clients : session[c] = "closed" /\ Len(sent[c]) > 0

\* C21: ApiService constructs at most one session, and none before the first
\* tool call; every tool call, suspended or answered, holds that one session;
\* the session is open while the server is up and closed once it has shut
\* down, whatever the order of the calls, their responses and the shutdown.
C21_OneLazySession ==
    /\ created <= 1
    /\ created = 0 <=> api_session = None
    /\ created = 0 <=> (in_flight = <<>> /\ ~rest_call.made)
    /\ \A i \in DOMAIN in_flight : in_flight[i].session = 1
    /\ rest_call.made => rest_call.session = 1
    /\ created = 1 => api_session = (IF rest_up THEN "open" ELSE "closed")

\* one call was answered and two more are suspended, all on the one session
C21_Witness ==
    /\ rest_call.made
    /\ Len(in_flight) = 2
    /\ in_flight[1].tool # in_flight[2].tool
    /\ created = 1
    /\ api_session = "open"

\* a digit among the first three characters of a line as the response has it
digit_in_first_three(line) == \E i \in 1..3 : i <= Len(line) /\ line[i] \in Digits

\* C22 as stated: the insights are exactly the lines of the response with a
\* digit among their first three characters, in the order of the response.
C22_InsightsAreLinesOfTheResponse ==
    insights_call.made =>
        insights_call.insights = SelectSeq(insights_call.response, digit_in_first_three)

\* C22, amended: the insights are, in the order of the response, the lines with
\* a digit among their first three characters as the response has them, each
\* stored without the whitespace around it and never empty; a line with no such
\* digit gives no insight.
C22_InsightsAreStrippedLines ==
    insights_call.made =>
        LET marked == SelectSeq(insights_call.response, digit_in_first_three)
        IN  /\ Len(insights_call.insights) = Len(marked)
            /\ \A i \in 1..Len(marked) :
                  /\ insights_call.insights[i] = strip(marked[i])
                  /\ insights_call.insights[i] # <<>>

\* a marked line with spaces around it, and a line whose digit comes only
\* after three spaces: one insight, the first line without its spaces
C22_Witness ==
    /\ insights_call.made
    /\ insights_call.response = << <<" ", "1", ".", " ">>, <<" ", " ", " ", "1", ".">> >>
    /\ insights_call.insights = << <<"1", ".">> >>

\* the calls a client has sent to a tool in the current run
calls_of(client, tool_name) ==
    {i \in DOMAIN sent[client] : sent[client][i].name = tool_name}

\* C23: a run of fetch_api_data that returned has sent get_real_time_alerts
\* with status "active" and limit 10 exactly once, first, and holds its result
\* under real_time_alerts; it has sent get_trader_profile for "Bill Lyons",
\* once, and holds its result under trader_profile exactly when the lowercased
\* query contains "bill lyons". No run sends either call twice or any other call.
C23_RestCallsOfTheStage ==
    LET calls == sent["api_client"]
        named == PhraseIn(<<"bill", "lyons">>, lower(query_arg))
    IN  /\ Cardinality(calls_of("api_client", "get_real_time_alerts")) <= 1
        /\ Cardinality(calls_of("api_client", "get_trader_profile")) <= 1
        /\ \A i \in DOMAIN calls :
              \/ i = 1 /\ calls[i] = [name |-> "get_real_time_alerts",
                                     arguments |-> [status |-> "active", limit |-> 10]]
              \/ i = 2 /\ named /\ calls[i] = [name |-> "get_trader_profile",
                                              arguments |-> [trader_id |-> "Bill Lyons"]]
        /\ "fetch_api_data" \in Completed =>
              /\ Len(calls) = (IF named THEN 2 ELSE 1)
              /\ Len(received["api_client"]) = Len(calls)
              /\ DOMAIN state.api_data =
                    (IF named THEN {"real_time_alerts", "trader_profile"}
                     ELSE {"real_time_alerts"})
              /\ state.api_data["real_time_alerts"] = received["api_client"][1]
              /\ named => state.api_data["trader_profile"] = received["api_client"][2]

\* the stage returned for a query naming Bill Lyons in capitals, with a profile
\* stored that differs from the real-time alerts
C23_Witness ==
    /\ "fetch_api_data" \in Completed
    /\ PhraseIn(<<"Bill", "Lyons">>, query_arg)
    /\ DOMAIN state.api_data = {"real_time_alerts", "trader_profile"}
    /\ state.api_data["trader_profile"] # state.api_data["real_time_alerts"]

\* the lowercased query of the run names a trader or asks for alerts
trader_or_alerts_query ==
    \E word \in {<<"bill", "lyons">>, <<"trader">>, <<"alerts">>} :
        PhraseIn(word, lower(query_arg))

\* C24: neo4j_data has no keys, or alerts and network, or spoofing_alerts, or
\* wash_trading_alerts; a run sends nothing to the graph server, or
\* get_alerts_for_trader and then get_trader_network for the same trader, or
\* one get_alerts_by_type; it sends no get_alerts_by_type when the lowercased
\* query contains "bill lyons", "trader" or "alerts"; and a stage that returned
\* holds the keys of the calls it sent.
C24_OneBranchFirstMatch ==
    phase # "idle" =>
    LET calls == sent["neo4j_client"]
        keys == DOMAIN state.neo4j_data
    IN  /\ keys \in {{}, {"alerts", "network"}, {"spoofing_alerts"}, {"wash_trading_alerts"}}
        /\ Len(calls) <= 2
        /\ Len(calls) >= 1 =>
              \/ calls[1].name = "get_alerts_for_trader"
              \/ calls[1].name = "get_alerts_by_type" /\ Len(calls) = 1
        /\ Len(calls) = 2 =>
              /\ calls[2].name = "get_trader_network"
              /\ calls[2].arguments.trader_name = calls[1].arguments.trader_name
        /\ trader_or_alerts_query => calls_of("neo4j_client", "get_alerts_by_type") = {}
        /\ "fetch_neo4j_data" \in Completed =>
              /\ keys = {"alerts", "network"} <=> Len(calls) = 2
              /\ keys = {} <=> calls = <<>>
              /\ keys = {"spoofing_alerts"} <=>
                    (calls # <<>> /\ calls[1].arguments = [misconduct_type |-> "spoofing",
                                                           limit |-> 15])
              /\ keys = {"wash_trading_alerts"} <=>
                    (calls # <<>> /\ calls[1].arguments = [misconduct_type |-> "wash_trading",
                                                           limit |-> 15])
              /\ (~trader_or_alerts_query /\ PhraseIn(<<"spoofing">>, lower(query_arg))) =>
                    keys = {"spoofing_alerts"}

\* a query with both "spoofing" and "Bill Lyons": the stage returned with the
\* trader's alerts and network and without the spoofing alerts
C24_Witness ==
    /\ "fetch_neo4j_data" \in Completed
    /\ PhraseIn(<<"Bill", "Lyons">>, query_arg)
    /\ DOMAIN state.neo4j_data = {"alerts", "network"}
    /\ Len(sent["neo4j_client"]) = 2
    /\ sent["neo4j_client"][1].arguments.trader_name = "Bill Lyons"

\* the stage returned with the alerts of wash trading only
C24_WashTrading ==
    /\ "fetch_neo4j_data" \in Completed
    /\ DOMAIN state.neo4j_data = {"wash_trading_alerts"}

====
